---- MODULE Spec2Model ----
(***************************************************************************)
(* Device session engine of web-pico-editor: PicoSerial (connection         *)
(* controller), Pico (session engine), readFromPort (framed reader) and the *)
(* codec helpers, modelled as a state machine.                              *)
(*                                                                          *)
(* Scheduling.  JavaScript runs one task at a time.  Every action below is  *)
(* one turn of one async function: from the point where it is resumed to    *)
(* its next suspension, including the synchronous part of every call it     *)
(* makes (an un-awaited async call runs synchronously up to its own first   *)
(* pending await).  A task whose awaited promise has settled is "runnable"  *)
(* (a microtask); user events and I/O completions are macrotasks and only   *)
(* happen when no task is runnable (Quiescent).                             *)
(*                                                                          *)
(* Transport.  The SerialPort is the environment.  Its streams follow the   *)
(* WHATWG Streams lock discipline (getReader()/getWriter() on a locked      *)
(* stream throws, cancel() of an errored stream rejects, releaseLock() with *)
(* a pending read rejects that read) and the Web Serial rule that           *)
(* port.readable is replaced by a fresh stream once the previous one was    *)
(* cancelled or errored.                                                    *)
(***************************************************************************)
EXTENDS Integers, Sequences, FiniteSets, TLC

\* ------------------------------------------------------------------ bounds
MaxScans == 3
MaxCmds == 2
MaxExchs == 2
MaxEvents == 3
MaxChunks == 2
MaxFaults == 1
MaxPorts == 2

Scans == 1..MaxScans
Cmds == 1..MaxCmds
Exchs == 1..MaxExchs
Ports == 1..MaxPorts

\* --------------------------------------------------------- characters
\* Text is a sequence of code points, a chunk a sequence of bytes.
CtrlA == 1
CtrlB == 2
CtrlC == 3
CtrlD == 4
ChO == 79
ChK == 75
TargetOK == <<ChO, ChK>>
TargetEOT == <<CtrlD>>
NoTarget == <<>>

VARIABLES
  picoPort,    \* PicoSerial.picoPort is set
  picoReader,  \* PicoSerial.picoReader: 0 (undefined) or the reader's id
  picoWriter,  \* PicoSerial.picoWriter: "null", "live" (holds the lock), "released"
  portState,   \* SerialPort: "closed", "opening", "opened", "closing"
  curSt,       \* port.readable, the current stream: "readable" or "closed" (cancelled)
  curLock,     \* reader holding the lock of the current readable stream, or 0
  wlock,       \* port.writable is locked
  rd,          \* reader r: "none", "cur" (locked on the current stream), "closed",
               \* "errored" (locked on a replaced stream), "released"
  scan,        \* clearPicoPort invocations
  cmd,         \* sendCommand invocations
  exch,        \* writeFile / loadTempPy invocations
  conn,        \* connect-button handler, open branch
  disc,        \* disconnectFromPort invocation
  wire,        \* chunks accepted by the writable stream, in order
  typed,       \* operator inputs handed to the terminal callback with a writable port
  term,        \* what was written to the terminal
  editor,      \* editor content
  hist,        \* history: what went wrong so far
  used,        \* budget spent: user events, chunks, faults
  dev,         \* the device at the other end, when it is a scripted double
  ports,       \* opts: the ports of the selector's options, in order; sel: the port
               \* of the selected option, 0 for the 'prompt' option; here: the
               \* ports plugged in; cur: the port last taken by getSelectedPort,
               \* whose state is portState; left: the other ports that are open
  poll         \* the buffer-polling engine: picoRecivedBuff (buff),
               \* isDataTransferMode (mode), waitForOK's receivedData, startTime
               \* and position, the clock (now)

vars == <<picoPort, picoReader, picoWriter, portState, curSt, curLock, wlock, rd,
          scan, cmd, exch, conn, disc, wire, typed, term, editor, hist, used, dev, ports,
          poll>>

NoVal == [kind |-> "none", chunk |-> <<>>]
NoScan == [pc |-> "free", target |-> NoTarget, cb |-> FALSE, res |-> <<>>,
           owner |-> 0, val |-> NoVal]
NoCmd == [pc |-> "free", data |-> [s |-> "", n |-> <<>>], input |-> FALSE]
NoExch == [pc |-> "free", kind |-> "none", w |-> 0, res |-> <<>>, content |-> <<>>,
           connected |-> FALSE, relay |-> FALSE]
\* on: the device is a scripted double; nl: the line ending its print adds;
\* cuts: where it cuts its reply into chunks; file: temp.py; asked: the print
\* line was received; reply: what it answered; out: chunks still to send;
\* msgs: the reply went out as 'OK', the printed line, end-of-data
\* all: what putBuffer has stored so far; polls: polls made by waitForOK
NoPoll == [pc |-> "idle", buff |-> <<>>, mode |-> FALSE, received |-> <<>>, now |-> 0,
           start |-> 0, all |-> <<>>, polls |-> 0]
NoDev == [on |-> FALSE, nl |-> <<>>, cuts |-> {}, file |-> <<>>, asked |-> FALSE,
          reply |-> <<>>, out |-> <<>>, msgs |-> FALSE]

\* The state as one record, so that the code's sequential steps compose.
\* ret is the outcome of the call just made, not part of the state.
Cur ==
  [picoPort |-> picoPort, picoReader |-> picoReader, picoWriter |-> picoWriter,
   portState |-> portState, curSt |-> curSt, curLock |-> curLock, wlock |-> wlock,
   rd |-> rd, scan |-> scan, cmd |-> cmd, exch |-> exch, conn |-> conn, disc |-> disc,
   wire |-> wire, typed |-> typed, term |-> term, editor |-> editor, hist |-> hist,
   used |-> used, dev |-> dev, ports |-> ports, poll |-> poll, ret |-> "none"]

Become(S) ==
  /\ picoPort' = S.picoPort
  /\ picoReader' = S.picoReader
  /\ picoWriter' = S.picoWriter
  /\ portState' = S.portState
  /\ curSt' = S.curSt
  /\ curLock' = S.curLock
  /\ wlock' = S.wlock
  /\ rd' = S.rd
  /\ scan' = S.scan
  /\ cmd' = S.cmd
  /\ exch' = S.exch
  /\ conn' = S.conn
  /\ disc' = S.disc
  /\ wire' = S.wire
  /\ typed' = S.typed
  /\ term' = S.term
  /\ editor' = S.editor
  /\ hist' = S.hist
  /\ used' = S.used
  /\ dev' = S.dev
  /\ ports' = S.ports
  /\ poll' = S.poll

\* ------------------------------------------------------------ sequences
RECURSIVE IndexFrom(_, _, _)
\* Least i >= from with target at position i of chunk, 0 when there is none.
IndexFrom(chunk, target, from) ==
  IF from + Len(target) - 1 > Len(chunk) THEN 0
  ELSE IF SubSeq(chunk, from, from + Len(target) - 1) = target THEN from
  ELSE IndexFrom(chunk, target, from + 1)

\* no chunk is taken to contain the terminator
includesNever(chunk, target) == FALSE

\* String.prototype.includes
includes(chunk, target) == IndexFrom(chunk, target, 1) # 0

\* the chunk whole, the terminator and what follows it included
wholeChunk(chunk, target) == chunk

\* the part before the last occurrence of the terminator
beforeLastTarget(chunk, target) ==
  LET at == {i \in 1..Len(chunk) : i + Len(target) - 1 <= Len(chunk)
                                     /\ SubSeq(chunk, i, i + Len(target) - 1) = target}
  IN IF at = {} THEN chunk
     ELSE SubSeq(chunk, 1, (CHOOSE i \in at : \A j \in at : j <= i) - 1)

\* chunk.split(target)[0]: the part before the first occurrence
beforeTarget(chunk, target) ==
  IF includes(chunk, target) THEN SubSeq(chunk, 1, IndexFrom(chunk, target, 1) - 1)
  ELSE chunk

\* TextDecoder.decode(value, {stream: true}) on the bytes the device double
\* sends, all below 0x80: one code point per byte.
decode(bytes) == [i \in 1..Len(bytes) |-> IF bytes[i] < 128 THEN bytes[i] ELSE 65533]

\* what the terminal receives
TermChunk(c) == [k |-> "chunk", c |-> c]
TermLine(k) == [k |-> k, c |-> <<>>]

uncaught(S, who) == [S EXCEPT !.hist.uncaught = @ \cup {who}]

\* -------------------------------------------------------------- codecs
\* TextEncoder.encode: UTF-8 of code points below 0x800
RECURSIVE utf8Encode(_)
utf8Encode(text) ==
  IF text = <<>> THEN <<>>
  ELSE LET c == Head(text) IN
       (IF c < 128 THEN <<c>> ELSE <<192 + (c \div 64), 128 + (c % 64)>>)
         \o utf8Encode(Tail(text))

stringToUint8Array(str) == utf8Encode(str)

\* TextDecoder('utf-8').decode: one- and two-byte sequences, U+FFFD for a
\* byte that starts or continues no valid sequence
RECURSIVE utf8Decode(_)
utf8Decode(bytes) ==
  IF bytes = <<>> THEN <<>>
  ELSE LET b == Head(bytes) IN
       IF b < 128 THEN <<b>> \o utf8Decode(Tail(bytes))
       ELSE IF b >= 194 /\ b < 224 /\ Len(bytes) >= 2 /\ bytes[2] >= 128 /\ bytes[2] < 192
            THEN <<(b - 192) * 64 + (bytes[2] - 128)>> \o utf8Decode(Tail(Tail(bytes)))
            ELSE <<65533>> \o utf8Decode(Tail(bytes))

\* decimal digits of a byte, as characters
digits(n) ==
  IF n < 10 THEN <<48 + n>>
  ELSE IF n < 100 THEN <<48 + (n \div 10), 48 + (n % 10)>>
  ELSE <<48 + (n \div 100), 48 + ((n \div 10) % 10), 48 + (n % 10)>>

RECURSIVE joinDigits(_)
joinDigits(bytes) ==
  IF bytes = <<>> THEN <<>>
  ELSE IF Len(bytes) = 1 THEN digits(bytes[1])
  ELSE digits(bytes[1]) \o <<44>> \o joinDigits(Tail(bytes))

\* JSON.stringify(Array.from(content)): "[1,2,3]"
jsonArray(content) == <<91>> \o joinDigits(content) \o <<93>>

\* value of a hexadecimal digit character, -1 for any other character
hexVal(c) ==
  IF c >= 48 /\ c <= 57 THEN c - 48
  ELSE IF c >= 97 /\ c <= 102 THEN c - 87
  ELSE IF c >= 65 /\ c <= 70 THEN c - 55
  ELSE -1

isSpace(c) == c \in {9, 10, 11, 12, 13, 32}

\* The byte stored by byteArray[k] = parseInt(two, 16) for a string of one or
\* two characters: parseInt skips leading white space, takes a sign, takes
\* the longest run of hexadecimal digits and gives NaN when there is none;
\* a Uint8Array stores NaN as 0 and any other number modulo 256.
parseHexByte(two) ==
  LET a == two[1]
      b == IF Len(two) >= 2 THEN two[2] ELSE -1
  IN IF hexVal(a) >= 0
     THEN (IF a = 48 /\ b \in {120, 88} THEN 0
           ELSE IF b >= 0 /\ hexVal(b) >= 0 THEN 16 * hexVal(a) + hexVal(b)
           ELSE hexVal(a))
     ELSE IF isSpace(a) /\ b >= 0 /\ hexVal(b) >= 0 THEN hexVal(b)
     ELSE IF a = 43 /\ b >= 0 /\ hexVal(b) >= 0 THEN hexVal(b)
     ELSE IF a = 45 /\ b >= 0 /\ hexVal(b) >= 0 THEN (256 - hexVal(b)) % 256
     ELSE 0

\* binaryStr.slice(2, -1)
slice2m1(str) == IF Len(str) <= 3 THEN <<>> ELSE SubSeq(str, 3, Len(str) - 1)

\* the hex string as it is, an odd digit left unpaired
hexPadNone(hexStr) == hexStr

hexPad(hexStr) == IF Len(hexStr) % 2 # 0 THEN hexStr \o <<48>> ELSE hexStr

hexPairs(hexStr) ==
  [k \in 1..(Len(hexStr) \div 2) |-> parseHexByte(SubSeq(hexStr, 2 * k - 1, 2 * k))]

\* the byte array as it is, a last 0x00 byte kept
keepLastNul(byteArray) == byteArray

\* drop the last byte when it is 0x00
dropLastNul(byteArray) ==
  IF Len(byteArray) > 0 /\ byteArray[Len(byteArray)] = 0
  THEN SubSeq(byteArray, 1, Len(byteArray) - 1)
  ELSE byteArray

binaryStringToUint8Array(binaryStr) == dropLastNul(hexPairs(hexPad(slice2m1(binaryStr))))

\* ------------------------------------------------- transport primitives
\* picoPort && picoPort.readable: a port that is not open has no streams
hasReadable(S) == S.picoPort /\ S.portState = "opened"
hasWritable(S) == S.picoPort /\ S.portState = "opened"

Settled(kind, chunk) == [kind |-> kind, chunk |-> chunk]

\* reader.read() by scan s on its own reader: pending on a readable stream,
\* done at once on a closed one, rejected on an errored stream or after the
\* reader was released
read(S, s) ==
  CASE S.rd[s] = "cur" /\ S.curSt = "readable" ->
         [S EXCEPT !.scan[s].pc = "read", !.scan[s].val = NoVal]
    [] S.rd[s] = "closed" \/ (S.rd[s] = "cur" /\ S.curSt = "closed") ->
         [S EXCEPT !.scan[s].pc = "got", !.scan[s].val = Settled("done", <<>>)]
    [] OTHER ->
         [S EXCEPT !.scan[s].pc = "got", !.scan[s].val = Settled("err", <<>>)]

\* reader.releaseLock() on reader q: the stream's lock is freed and a read
\* still pending on q is rejected
readerRelease(S, q) ==
  LET T == [S EXCEPT !.rd[q] = "released",
                     !.curLock = IF S.curLock = q /\ S.rd[q] = "cur" THEN 0 ELSE @]
  IN IF T.scan[q].pc = "read"
     THEN [T EXCEPT !.scan[q].pc = "got", !.scan[q].val = Settled("err", <<>>)]
     ELSE T

\* reader.cancel() on reader r.  ret: "pending" (the stream is closed now, its
\* pending read settles with done, the promise settles when the port has
\* discarded its buffers), "resolved" (already closed), "rejected" (errored
\* stream, released reader)
cancel(S, r) ==
  CASE S.rd[r] = "cur" /\ S.curSt = "readable" ->
         LET T == [S EXCEPT !.curSt = "closed", !.ret = "pending",
                            !.hist.cancelled = @ \cup {r}]
         IN IF T.scan[r].pc = "read"
            THEN [T EXCEPT !.scan[r].pc = "got", !.scan[r].val = Settled("done", <<>>)]
            ELSE T
    [] S.rd[r] = "closed" \/ (S.rd[r] = "cur" /\ S.curSt = "closed") ->
         [S EXCEPT !.ret = "resolved"]
    [] OTHER -> [S EXCEPT !.ret = "rejected"]

\* The port replaces a cancelled readable stream: readers still locked on it
\* stay with the closed stream.
replaceStream(S) ==
  IF S.curSt = "closed"
  THEN [S EXCEPT !.curSt = "readable", !.curLock = 0,
                 !.rd = [r \in Scans |-> IF S.rd[r] = "cur" THEN "closed" ELSE S.rd[r]]]
  ELSE S

\* -------------------------------------------------------- PicoSerial
getWritablePort(S) ==
  IF hasWritable(S)
  THEN IF S.wlock
       THEN [S EXCEPT !.ret = "throw"]
       ELSE [S EXCEPT !.wlock = TRUE, !.picoWriter = "live", !.ret = "writer"]
  ELSE [S EXCEPT !.picoWriter = "null", !.ret = "null"]

\* releaseLock() that releases nothing
releaseLockNone(S) == S

releaseLock(S) ==
  IF S.picoWriter = "live"
  THEN [S EXCEPT !.wlock = FALSE, !.picoWriter = "released"]
  ELSE S

\* picoWrite: this.picoWriter?.write(data).  "skipped": no writer, nothing is
\* written; "rejected": the writer was released; "pending" otherwise
picoWrite(S) ==
  CASE S.picoWriter = "live" -> "pending"
    [] S.picoWriter = "null" -> "skipped"
    [] OTHER -> "rejected"

markDisconnected(S) ==
  [S EXCEPT !.picoPort = FALSE, !.term = Append(@, TermLine("<DISCONNECTED>")),
            !.conn.ui = "Connect"]

markConnected(S) == [S EXCEPT !.conn.ui = "Disconnect"]

\* ------------------------------------------------------------- Pico
FreeScans(S) == {s \in Scans : S.scan[s].pc = "free" /\ S.rd[s] = "none"}
FreeCmds(S) == {c \in Cmds : S.cmd[c].pc = "free"}
FreeExchs(S) == {e \in Exchs : S.exch[e].pc = "free"}
Least(set) == CHOOSE x \in set : \A y \in set : x <= y

\* clearPicoPort up to its first pending await.  ret: "empty" (no readable
\* port, '' is returned), "throw" (getReader() on a locked stream), "scan"
clearPicoPort(S, targetChar, callback, owner) ==
  IF ~hasReadable(S) THEN [S EXCEPT !.ret = "empty"]
  ELSE IF S.curLock # 0
  THEN [S EXCEPT !.ret = "throw", !.hist.lockedGetReader = TRUE]
  ELSE LET s == Least(FreeScans(S)) IN
       read([S EXCEPT !.rd[s] = "cur", !.curLock = s, !.picoReader = s,
                      !.scan[s] = [pc |-> "read", target |-> targetChar,
                                   cb |-> callback, res |-> <<>>, owner |-> owner,
                                   val |-> NoVal],
                      !.hist.cancelled = @ \ {s},
                      !.hist.owed = IF callback THEN FALSE ELSE @,
                      !.ret = "scan"], s)

\* readPicoPort(), its promise dropped or awaited by the connect handler only
readPicoPort(S) ==
  LET T == clearPicoPort(S, NoTarget, TRUE, 0)
  IN IF T.ret = "throw" THEN uncaught(T, "readPicoPort") ELSE T

\* an exchange ends with an exception nobody catches
exchReject(S, e) == uncaught([S EXCEPT !.exch[e] = NoExch], S.exch[e].kind)

\* the owner of an awaited scan is resumed with the scan's result
ownerResume(S, o, result) ==
  [S EXCEPT !.exch[o].pc = IF @ = "scan1" THEN "after1" ELSE "after2",
            !.exch[o].res = result]

\* the finally block and the return of clearPicoPort
scanEnd(S, s) ==
  LET o == S.scan[s].owner
      result == S.scan[s].res
      gone(T) == [T EXCEPT !.scan[s] = NoScan,
                           !.rd[s] = IF @ = "released" THEN "none" ELSE @]
  IN IF S.picoReader = 0
     THEN \* picoSerial.picoReader.releaseLock() on undefined: TypeError
          IF o = 0 THEN uncaught(gone(S), "clearPicoPort") ELSE exchReject(gone(S), o)
     ELSE LET T == gone([readerRelease(S, S.picoReader) EXCEPT !.picoReader = 0])
          IN IF o = 0 THEN T ELSE ownerResume(T, o, result)

\* the loop without its catch block: a failed read leaves clearPicoPort
\* through finally, as an exception
scanStepNoCatch(S, s) ==
  LET sc == S.scan[s] IN
  CASE sc.val.kind = "chunk" ->
         LET chunk == decode(sc.val.chunk)
             T == IF sc.cb THEN [S EXCEPT !.term = Append(@, TermChunk(chunk))] ELSE S
         IN IF sc.target # NoTarget /\ includes(chunk, sc.target)
            THEN scanEnd([T EXCEPT !.scan[s].res = @ \o beforeTarget(chunk, sc.target)], s)
            ELSE read([T EXCEPT !.scan[s].res = @ \o chunk], s)
    [] sc.val.kind = "done" -> scanEnd(S, s)
    [] OTHER -> uncaught(scanEnd(S, s), "clearPicoPort")

\* one turn of the for-await loop of clearPicoPort over readFromPort, on the
\* settled read of scan s
scanStep(S, s) ==
  LET sc == S.scan[s] IN
  CASE sc.val.kind = "chunk" ->
         LET chunk == decode(sc.val.chunk)
             T == IF sc.cb THEN [S EXCEPT !.term = Append(@, TermChunk(chunk))] ELSE S
         IN IF sc.target # NoTarget /\ includes(chunk, sc.target)
            THEN scanEnd([T EXCEPT !.scan[s].res = @ \o beforeTarget(chunk, sc.target)], s)
            ELSE read([T EXCEPT !.scan[s].res = @ \o chunk], s)
    [] sc.val.kind = "done" -> scanEnd(S, s)
    [] sc.val.kind = "errval" -> \* catch, e is no Error: nothing calls resolve
         [S EXCEPT !.scan[s].pc = "hang", !.scan[s].val = NoVal]
    [] OTHER -> \* catch: term.writeln('<ERROR: ...>', resolve)
         [S EXCEPT !.scan[s].pc = "catch", !.scan[s].val = NoVal,
                   !.term = Append(@, TermLine("<ERROR>"))]

\* sendCommand up to its first pending await
sendCommand(S, command, input) ==
  LET G == getWritablePort(S) IN
  CASE G.ret = "throw" -> uncaught(G, "sendCommand")
    [] G.ret = "null" -> G
    [] OTHER -> [G EXCEPT !.cmd[Least(FreeCmds(G))] =
                            [pc |-> "write", data |-> command, input |-> input]]

Bytes(n) == [s |-> "", n |-> n]
Line(s) == [s |-> s, n |-> <<>>]

\* what the i-th write of writeFile('temp.py', content) sends
writeFileData(i, content) ==
  CASE i = 1 -> Bytes(<<CtrlA>>)
    [] i = 2 -> Line("with open(\"temp.py\", \"wb\") as f:\\r")
    [] i = 3 -> [s |-> "  f.write(bytes(${chunk}))\\r", n |-> jsonArray(content)]
    [] OTHER -> Bytes(<<CtrlD>>)

\* what the i-th write of loadTempPy sends
loadTempPyData(i) ==
  CASE i = 1 -> Bytes(<<CtrlA>>)
    [] i = 2 -> Line("import os\\r")
    [] i = 3 -> Line("with open(\"temp.py\", \"rb\") as f:\\r")
    [] i = 4 -> Line("  import ubinascii\\r")
    [] i = 5 -> Line("  print(ubinascii.hexlify(f.read()))\\r")
    [] OTHER -> Bytes(<<CtrlD>>)

WritesOf(kind) == IF kind = "writeFile" THEN 4 ELSE 6

exchData(x) ==
  IF x.kind = "writeFile" THEN writeFileData(x.w, x.content) ELSE loadTempPyData(x.w)

\* await this.write(...), the i-th of exchange e
exchWrite(S, e, i) ==
  CASE picoWrite(S) = "pending" -> [S EXCEPT !.exch[e].pc = "write", !.exch[e].w = i]
    [] picoWrite(S) = "skipped" -> [S EXCEPT !.exch[e].pc = "wrote", !.exch[e].w = i]
    [] OTHER -> exchReject(S, e)

\* the last statement of writeFile and of loadTempPy: readPicoPort(), not awaited
exchResume(S, e) == [readPicoPort(S) EXCEPT !.exch[e] = NoExch]

\* writeFile without its second cancel: readPicoPort() at once
writeFileNoCancel2(S, e) == exchResume(S, e)

\* writeFile, second "if (picoReader) await picoReader.cancel()"
writeFileCancel2(S, e) ==
  IF S.picoReader = 0 THEN exchResume(S, e)
  ELSE LET T == cancel(S, S.picoReader) IN
       CASE T.ret = "pending" -> [T EXCEPT !.exch[e].pc = "cancel2"]
         [] T.ret = "resolved" -> [T EXCEPT !.exch[e].pc = "resume"]
         [] OTHER -> exchReject(T, e)

\* loadTempPy from the first scan on: await clearPicoPort('OK', null)
loadScan(S, e, targetChar, waiting, after) ==
  LET T == clearPicoPort(S, targetChar, FALSE, e) IN
  CASE T.ret = "throw" -> exchReject(T, e)
    [] T.ret = "empty" -> [T EXCEPT !.exch[e].pc = after, !.exch[e].res = <<>>]
    [] OTHER -> [T EXCEPT !.exch[e].pc = waiting]

\* after the last write with the writer kept: no releaseLock()
exchAfterWritesKeepLock(S, e) ==
  IF S.exch[e].kind = "writeFile"
  THEN writeFileCancel2(sendCommand(S, Bytes(<<CtrlB>>), FALSE), e)
  ELSE loadScan(S, e, TargetOK, "scan1", "after1")

\* after the last write: releaseLock(), then what follows in each exchange
exchAfterWrites(S, e) ==
  LET T == releaseLock(S) IN
  IF S.exch[e].kind = "writeFile"
  THEN writeFileCancel2(sendCommand(T, Bytes(<<CtrlB>>), FALSE), e)
  ELSE loadScan(T, e, TargetOK, "scan1", "after1")

\* loadTempPy after the second scan: decode, CTRL+B, editor.setValue, resume
loadFinish(S, e) ==
  LET text == utf8Decode(binaryStringToUint8Array(S.exch[e].res))
      T == sendCommand(S, Bytes(<<CtrlB>>), FALSE)
  IN exchResume([T EXCEPT !.editor = text, !.hist.setValue = @ + 1], e)

\* if (getWritablePort()) { writes ... } and what follows when there is none
exchWrites(S, e) ==
  LET G == getWritablePort(S) IN
  CASE G.ret = "throw" -> exchReject(G, e)
    [] G.ret = "null" ->
         IF S.exch[e].kind = "writeFile" THEN writeFileCancel2(G, e) ELSE exchResume(G, e)
    [] OTHER -> exchWrite(G, e, 1)

\* the drain pass forwards what it reads to the terminal
exchBodyForward(S, e) ==
  IF S.exch[e].kind = "writeFile"
  THEN LET D == clearPicoPort(S, NoTarget, TRUE, 0)
       IN exchWrites(IF D.ret = "throw" THEN uncaught(D, "clearPicoPort") ELSE D, e)
  ELSE exchWrites(S, e)

\* writeFile after the first cancel: the drain pass clearPicoPort(false, null),
\* not awaited; loadTempPy goes straight to its writes
exchBody(S, e) ==
  IF S.exch[e].kind = "writeFile"
  THEN LET D == clearPicoPort(S, NoTarget, FALSE, 0)
       IN exchWrites(IF D.ret = "throw" THEN uncaught(D, "clearPicoPort") ELSE D, e)
  ELSE exchWrites(S, e)

\* writeFile / loadTempPy from its first statement
exchStart(S, kind, content) ==
  LET e == Least(FreeExchs(S))
      S0 == [S EXCEPT !.exch[e] = [pc |-> "body", kind |-> kind, w |-> 0, res |-> <<>>,
                                   content |-> content, connected |-> hasReadable(S),
                                   relay |-> S.picoReader # 0 /\ S.scan[S.picoReader].cb],
                      !.hist.owed = @ \/ hasReadable(S)]
  IN IF S.picoReader = 0 THEN exchBody(S0, e)
     ELSE LET T == cancel(S0, S.picoReader) IN
          CASE T.ret = "pending" -> [T EXCEPT !.exch[e].pc = "cancel1"]
            [] T.ret = "resolved" -> T
            [] OTHER -> exchReject(T, e)

\* the continuation of exchange e once its awaited promise has settled
exchStep(S, e) ==
  LET x == S.exch[e] IN
  CASE x.pc = "body" -> exchBody(S, e)
    [] x.pc = "wrote" ->
         IF x.w < WritesOf(x.kind) THEN exchWrite(S, e, x.w + 1) ELSE exchAfterWrites(S, e)
    [] x.pc = "after1" -> loadScan(S, e, TargetEOT, "scan2", "after2")
    [] x.pc = "after2" -> loadFinish(S, e)
    [] OTHER -> exchResume(S, e)  \* "resume"

\* -------------------------------------------------- connection controller
\* open() has failed and no error line is written
openFailedSilent(S) == readPicoPort(markDisconnected(S))

\* openPicoPort after open() has failed: the error line, markDisconnected;
\* the click handler then awaits readPicoPort()
openFailed(S) ==
  readPicoPort(markDisconnected([S EXCEPT !.term = Append(@, TermLine("<ERROR>"))]))

\* connect-button handler, open branch: openPicoPort up to its pending
\* open().  getSelectedPort takes the selected option's port; open() on a
\* port that is not closed rejects at once.
openPicoPort(S) ==
  LET T == markConnected([S EXCEPT !.picoPort = TRUE]) IN
  IF S.portState = "closed"
  THEN [T EXCEPT !.portState = "opening", !.conn.pc = "opening"]
  ELSE openFailed(T)

\* await localPort.close(): close() rejects at once on a port that is not
\* open or has a locked stream; the rejection is caught
discClose(S) ==
  IF S.portState = "opened" /\ S.curLock = 0 /\ ~S.wlock
  THEN [S EXCEPT !.portState = "closing", !.disc.pc = "close"]
  ELSE [S EXCEPT !.disc.pc = "afterClose", !.hist.closeFailed = TRUE]

\* disconnectFromPort that leaves picoPort set until markDisconnected
disconnectKeepsPort(S) ==
  LET S1 == [S EXCEPT !.disc.lease = S.picoReader,
                      !.disc.relay = S.picoReader # 0 /\ S.scan[S.picoReader].cb] IN
  IF S.picoReader = 0 THEN discClose(S1)
  ELSE LET T == cancel(S1, S.picoReader) IN
       CASE T.ret = "pending" -> [T EXCEPT !.disc.pc = "cancel"]
         [] T.ret = "resolved" -> [T EXCEPT !.disc.pc = "afterCancel"]
         [] OTHER -> uncaught(T, "disconnectFromPort")

\* disconnectFromPort up to its first pending await
disconnectFromPort(S) ==
  LET S1 == [S EXCEPT !.picoPort = FALSE, !.disc.lease = S.picoReader,
                      !.disc.relay = S.picoReader # 0 /\ S.scan[S.picoReader].cb] IN
  IF S.picoReader = 0 THEN discClose(S1)
  ELSE LET T == cancel(S1, S.picoReader) IN
       CASE T.ret = "pending" -> [T EXCEPT !.disc.pc = "cancel"]
         [] T.ret = "resolved" -> [T EXCEPT !.disc.pc = "afterCancel"]
         [] OTHER -> uncaught(T, "disconnectFromPort")

\* ------------------------------------------------------- device double
\* bytes([d,d,...]) as the device evaluates the literal sent by writeFile
RECURSIVE devBytes(_, _, _)
devBytes(str, i, cur) ==
  IF i > Len(str) THEN (IF cur >= 0 THEN <<cur % 256>> ELSE <<>>)
  ELSE IF str[i] >= 48 /\ str[i] <= 57
  THEN devBytes(str, i + 1, (IF cur < 0 THEN 0 ELSE cur * 10) + (str[i] - 48))
  ELSE (IF cur >= 0 THEN <<cur % 256>> ELSE <<>>) \o devBytes(str, i + 1, -1)

hexChar(d) == IF d < 10 THEN 48 + d ELSE 87 + d

\* ubinascii.hexlify: two lower-case hexadecimal digits per byte
RECURSIVE hexlify(_)
hexlify(bytes) ==
  IF bytes = <<>> THEN <<>>
  ELSE <<hexChar(Head(bytes) \div 16), hexChar(Head(bytes) % 16)>> \o hexlify(Tail(bytes))

\* print(ubinascii.hexlify(f.read())): b'...' and the line ending
devPrint(file, nl) == <<98, 39>> \o hexlify(file) \o <<39>> \o nl

\* the reply cut into chunks after the positions in cuts
RECURSIVE devChunks(_, _, _)
devChunks(reply, cuts, from) ==
  LET nxt == {q \in cuts : q >= from /\ q < Len(reply)} IN
  IF nxt = {} THEN <<SubSeq(reply, from, Len(reply))>>
  ELSE <<SubSeq(reply, from, Least(nxt))>> \o devChunks(reply, cuts, Least(nxt) + 1)

\* the double receives what the writable stream accepted: it stores the bytes
\* of f.write, notes the print line, and on end-of-data answers the read
\* request with 'OK', the printed line and end-of-data
devReceive(S, data) ==
  IF ~S.dev.on THEN S
  ELSE CASE data.s = writeFileData(3, <<>>).s ->
              [S EXCEPT !.dev.file = devBytes(data.n, 1, -1)]
         [] data.s = loadTempPyData(5).s -> [S EXCEPT !.dev.asked = TRUE]
         [] data.n = <<CtrlD>> /\ S.dev.asked ->
              LET line == devPrint(S.dev.file, S.dev.nl)
                  reply == TargetOK \o line \o <<CtrlD>>
                  out == devChunks(reply, S.dev.cuts, 1)
              IN [S EXCEPT !.dev.asked = FALSE, !.dev.reply = reply, !.dev.out = out,
                           !.dev.msgs = (out = <<TargetOK, line, <<CtrlD>>>>)]
         [] OTHER -> S

\* ----------------------------------------------------------- scheduling
RunnableScans(S) == {s \in Scans : S.scan[s].pc = "got"}
RunnableCmds(S) == {c \in Cmds : S.cmd[c].pc = "wrote"}
RunnableExchs(S) == {e \in Exchs : S.exch[e].pc \in {"body", "wrote", "after1", "after2", "resume"}}
Quiescent(S) ==
  /\ RunnableScans(S) = {}
  /\ RunnableCmds(S) = {}
  /\ RunnableExchs(S) = {}
  /\ S.conn.pc \in {"idle", "opening"}
  /\ S.disc.pc \in {"idle", "cancel", "close"}

\* room for the tasks one turn may start
Room(S) == FreeScans(S) # {} /\ FreeCmds(S) # {} /\ FreeExchs(S) # {}

Event(S) == [S EXCEPT !.used.events = @ + 1]
Fault(S) == [S EXCEPT !.used.faults = @ + 1]
UserMay == Quiescent(Cur) /\ Room(Cur) /\ used.events < MaxEvents
FaultMay == Quiescent(Cur) /\ used.faults < MaxFaults

\* texts the operator may put in the editor, inputs typed in the terminal,
\* chunks the device may send
EditorTexts == {<<>>, <<97>>}
Inputs == {97, CtrlC}
Chunks == {<<97>>, <<ChO, ChK>>, <<CtrlD>>}

\* the selector after startup with every port plugged in and enumerated,
\* the first port's option selected
AllListed ==
  [opts |-> [i \in 1..MaxPorts |-> i], sel |-> 1, here |-> Ports, cur |-> 1, left |-> {}]

InitAt(device, registry) ==
  /\ dev = device
  /\ picoPort = FALSE
  /\ picoReader = 0
  /\ picoWriter = "null"
  /\ portState = "closed"
  /\ curSt = "readable"
  /\ curLock = 0
  /\ wlock = FALSE
  /\ rd = [r \in Scans |-> "none"]
  /\ scan = [s \in Scans |-> NoScan]
  /\ cmd = [c \in Cmds |-> NoCmd]
  /\ exch = [e \in Exchs |-> NoExch]
  /\ conn = [pc |-> "idle", ui |-> "Connect"]
  /\ disc = [pc |-> "idle", lease |-> 0, relay |-> FALSE]
  /\ wire = <<>>
  /\ typed = <<>>
  /\ term = <<>>
  /\ editor = <<>>
  /\ hist = [uncaught |-> {}, lockedGetReader |-> FALSE, cancelled |-> {},
             closeFailed |-> FALSE, setValue |-> 0, owed |-> FALSE, sent |-> <<>>,
             saved |-> <<>>]
  /\ used = [events |-> 0, chunks |-> 0, faults |-> 0]
  /\ ports = registry
  /\ poll = NoPoll

InitWith(device) == InitAt(device, AllListed)

\* the state after construction, the device being the environment
Init == InitWith(NoDev)

\* ---------------------------------------------------------- user events
\* the operator edits the text in the editor
EditorInput(text) ==
  /\ Quiescent(Cur)
  /\ editor # text
  /\ editor' = text
  /\ UNCHANGED <<picoPort, picoReader, picoWriter, portState, curSt, curLock, wlock, rd,
                 scan, cmd, exch, conn, disc, wire, typed, term, hist, used, dev, ports,
                 poll>>

\* click on the connect button
ClickConnect ==
  /\ UserMay
  /\ Become(Event(IF picoPort THEN disconnectFromPort(Cur) ELSE openPicoPort(Cur)))

\* click on "save": pico.writeFile('temp.py', stringToUint8Array(editor.getValue()))
ClickSave ==
  /\ UserMay
  /\ Become(Event(exchStart([Cur EXCEPT !.hist.saved = editor], "writeFile",
                             stringToUint8Array(editor))))

\* click on "load": loadTempPy(editor)
ClickLoad ==
  /\ UserMay
  /\ Become(Event(exchStart(Cur, "loadTempPy", <<>>)))

\* click on "run": sendCommand('\x01' + editor.getValue() + '\x04\x02')
ClickRun ==
  /\ UserMay
  /\ Become(Event(sendCommand(Cur,
        Bytes(utf8Encode(<<CtrlA>> \o editor \o <<CtrlD, CtrlB>>)), FALSE)))

\* click on "stop": sendCommand('\x03')
ClickStop ==
  /\ UserMay
  /\ Become(Event(sendCommand(Cur, Bytes(<<CtrlC>>), FALSE)))

\* term.onData: the operator's input goes to sendCommand
TermInput(k) ==
  /\ UserMay
  /\ Become(Event(sendCommand(
        [Cur EXCEPT !.typed = IF hasWritable(Cur) /\ FreeExchs(Cur) = Exchs
                              THEN Append(@, <<k>>) ELSE @],
        Bytes(utf8Encode(<<k>>)), TRUE)))

\* ------------------------------------------------------ I/O completions
\* open() succeeded: the port has fresh, unlocked streams
OpenDone ==
  /\ Quiescent(Cur)
  /\ portState = "opening"
  /\ Become([Cur EXCEPT !.portState = "opened", !.curSt = "readable", !.curLock = 0,
                        !.wlock = FALSE, !.conn.pc = "opened"])

\* open() failed
OpenFail ==
  /\ FaultMay
  /\ portState = "opening"
  /\ Become(Fault([Cur EXCEPT !.portState = "closed", !.conn.pc = "failed"]))

\* close() succeeded: the port closes once its streams are done with, so a
\* cancel() still pending on the readable stream settles first
CloseDone ==
  /\ Quiescent(Cur)
  /\ disc.pc = "close"
  /\ curSt = "readable"
  /\ Become([Cur EXCEPT !.portState = "closed", !.disc.pc = "afterClose"])

\* a pending cancel() is done: the port drops the cancelled stream
CancelDoneExch(e) ==
  /\ Quiescent(Cur)
  /\ exch[e].pc \in {"cancel1", "cancel2"}
  /\ Become([replaceStream(Cur) EXCEPT
        !.exch[e].pc = IF @ = "cancel1" THEN "body" ELSE "resume"])

CancelDoneDisc ==
  /\ Quiescent(Cur)
  /\ disc.pc = "cancel"
  /\ Become([replaceStream(Cur) EXCEPT !.disc.pc = "afterCancel"])

\* the device sends a chunk: the pending read of scan s settles with it
Deliver(s, chunk) ==
  /\ Quiescent(Cur)
  /\ scan[s].pc = "read"
  /\ used.chunks < MaxChunks
  /\ Become([Cur EXCEPT !.scan[s].pc = "got", !.scan[s].val = Settled("chunk", chunk),
                        !.used.chunks = @ + 1])

\* a read error: the pending read rejects, the stream is errored and the port
\* replaces it
ReadError(s) ==
  /\ FaultMay
  /\ scan[s].pc = "read"
  /\ Become(Fault([Cur EXCEPT !.scan[s].pc = "got", !.scan[s].val = Settled("err", <<>>),
                              !.rd[s] = "errored", !.curLock = 0]))

\* the stream ends: the pending read settles with done, the port replaces the
\* stream
StreamEnd(s) ==
  /\ FaultMay
  /\ scan[s].pc = "read"
  /\ Become(Fault([Cur EXCEPT !.scan[s].pc = "got", !.scan[s].val = Settled("done", <<>>),
                              !.rd[s] = "closed", !.curLock = 0]))

\* the writable stream accepted the chunk of a pending write
WriteDoneCmd(c) ==
  /\ Quiescent(Cur)
  /\ cmd[c].pc = "write"
  /\ Become(devReceive(
        [Cur EXCEPT !.wire = Append(@, cmd[c].data), !.cmd[c].pc = "wrote",
                    !.hist.sent = IF cmd[c].input THEN Append(@, cmd[c].data.n) ELSE @],
        cmd[c].data))

WriteDoneExch(e) ==
  /\ Quiescent(Cur)
  /\ exch[e].pc = "write"
  /\ Become(devReceive(
        [Cur EXCEPT !.wire = Append(@, exchData(exch[e])), !.exch[e].pc = "wrote"],
        exchData(exch[e])))

\* a pending write rejects: sendCommand, writeFile and loadTempPy have no catch
WriteFailCmd(c) ==
  /\ FaultMay
  /\ cmd[c].pc = "write"
  /\ Become(Fault(uncaught([Cur EXCEPT !.cmd[c] = NoCmd], "sendCommand")))

WriteFailExch(e) ==
  /\ FaultMay
  /\ exch[e].pc = "write"
  /\ Become(Fault(exchReject(Cur, e)))

\* the terminal has written the error line: the catch block of scan s is done
TermFlush(s) ==
  /\ Quiescent(Cur)
  /\ scan[s].pc = "catch"
  /\ Become(scanEnd(Cur, s))

\* -------------------------------------------------------- continuations
ScanStep(s) ==
  /\ scan[s].pc = "got"
  /\ Become(scanStep(Cur, s))

\* sendCommand after its write: releaseLock()
CmdStep(c) ==
  /\ cmd[c].pc = "wrote"
  /\ Become(releaseLock([Cur EXCEPT !.cmd[c] = NoCmd]))

ExchStep(e) ==
  /\ e \in RunnableExchs(Cur)
  /\ Room(Cur) \/ FreeExchs(Cur) = {}
  /\ FreeScans(Cur) # {} /\ FreeCmds(Cur) # {}
  /\ Become(exchStep(Cur, e))

\* openPicoPort after open(): '<CONNECTED>', then the handler's readPicoPort()
ConnStep ==
  /\ conn.pc \in {"opened", "failed"}
  /\ FreeScans(Cur) # {}
  /\ Become(IF conn.pc = "opened"
            THEN readPicoPort([Cur EXCEPT !.conn.pc = "idle",
                                          !.term = Append(@, TermLine("<CONNECTED>"))])
            ELSE openFailed([Cur EXCEPT !.conn.pc = "idle"]))

\* disconnectFromPort after cancel() and after close()
DiscStep ==
  /\ disc.pc \in {"afterCancel", "afterClose"}
  /\ Become(IF disc.pc = "afterCancel"
            THEN discClose(Cur)
            ELSE markDisconnected([Cur EXCEPT !.disc.pc = "idle"]))

Next ==
  \/ \E text \in EditorTexts : EditorInput(text)
  \/ ClickConnect
  \/ ClickSave
  \/ ClickLoad
  \/ ClickRun
  \/ ClickStop
  \/ \E k \in Inputs : TermInput(k)
  \/ OpenDone
  \/ OpenFail
  \/ CloseDone
  \/ \E e \in Exchs : CancelDoneExch(e)
  \/ CancelDoneDisc
  \/ \E s \in Scans, chunk \in Chunks : Deliver(s, chunk)
  \/ \E s \in Scans : ReadError(s)
  \/ \E s \in Scans : StreamEnd(s)
  \/ \E c \in Cmds : WriteDoneCmd(c)
  \/ \E e \in Exchs : WriteDoneExch(e)
  \/ \E c \in Cmds : WriteFailCmd(c)
  \/ \E e \in Exchs : WriteFailExch(e)
  \/ \E s \in Scans : TermFlush(s)
  \/ \E s \in Scans : ScanStep(s)
  \/ \E c \in Cmds : CmdStep(c)
  \/ \E e \in Exchs : ExchStep(e)
  \/ ConnStep
  \/ DiscStep

Spec == Init /\ [][Next]_vars

\* ------------------------------------------- session with a device double
MaxCuts == 2
MaxReply == 12
DevTexts == {<<>>, <<97>>, <<0>>, <<97, 0>>, <<233>>}
DevLineEnds == {<<>>, <<13, 10>>, <<10>>}
DevCuts == {c \in SUBSET (1..(MaxReply - 1)) : Cardinality(c) <= MaxCuts}

InitDev ==
  \E nl \in DevLineEnds, cuts \in DevCuts :
    InitWith([NoDev EXCEPT !.on = TRUE, !.nl = nl, !.cuts = cuts])

\* the double sends its next chunk: the pending read on the stream settles
DevSend ==
  /\ Quiescent(Cur)
  /\ dev.out # <<>>
  /\ curLock # 0
  /\ scan[curLock].pc = "read"
  /\ Become([Cur EXCEPT !.scan[curLock].pc = "got",
                        !.scan[curLock].val = Settled("chunk", Head(dev.out)),
                        !.dev.out = Tail(@)])

\* nothing of an operation is outstanding: every exchange and command has
\* ended and the controller is idle
AtRest ==
  /\ Quiescent(Cur)
  /\ FreeExchs(Cur) = Exchs
  /\ FreeCmds(Cur) = Cmds
  /\ conn.pc = "idle"
  /\ disc.pc = "idle"
  /\ \A s \in Scans : scan[s].pc \in {"free", "read"}

\* the operator writes a text, connects, saves it and loads it back
DevEdit(text) == wire = <<>> /\ FreeExchs(Cur) = Exchs /\ EditorInput(text)
DevConnect == ~picoPort /\ used.events = 0 /\ ClickConnect
DevSave == AtRest /\ used.events = 1 /\ ClickSave
DevLoad == AtRest /\ used.events = 2 /\ ClickLoad

NextDev ==
  \/ \E text \in DevTexts : DevEdit(text)
  \/ DevConnect
  \/ DevSave
  \/ DevLoad
  \/ OpenDone
  \/ DevSend
  \/ \E e \in Exchs : CancelDoneExch(e)
  \/ \E c \in Cmds : WriteDoneCmd(c)
  \/ \E e \in Exchs : WriteDoneExch(e)
  \/ \E s \in Scans : ScanStep(s)
  \/ \E c \in Cmds : CmdStep(c)
  \/ \E e \in Exchs : ExchStep(e)
  \/ ConnStep

SpecDev == InitDev /\ [][NextDev]_vars

\* sanity
TypeOK ==
  /\ picoReader \in 0..MaxScans
  /\ picoWriter \in {"null", "live", "released"}
  /\ \A s \in Scans : rd[s] \in {"none", "cur", "closed", "errored", "released"}
  /\ picoPort => disc.pc = "idle"
  /\ picoReader # 0 => scan[picoReader].pc # "free"
  /\ Cardinality({c \in Cmds : cmd[c].pc # "free"}) <= 1

\* ================================================================ claims
\* leases acquired through getReader() and not yet released
LiveLeases == {r \in Scans : rd[r] \in {"cur", "closed", "errored"}}

\* C1: across every interleaving of connect, relay, writeFile, loadTempPy and
\* disconnectFromPort steps, at most one Reader Lease is live (acquired and
\* not yet released) at any instant.
C1_AtMostOneLiveLease == Cardinality(LiveLeases) <= 1

\* C2: the engine never calls getReader() on a readable endpoint whose lock
\* is still held, so the stream's 'already locked' error is never raised.
C2_NoLockedGetReader == ~hist.lockedGetReader


\* a relay holds a lease and waits for the device
Relaying == \E s \in Scans : scan[s].cb /\ scan[s].pc = "read" /\ rd[s] = "cur"

\* C3: every writeFile or loadTempPy exchange started while the transport is
\* connected is followed by a resumed relay, on success and on failure: once
\* everything the exchange set off has run to its end and the transport is
\* still connected, a relay has been started since the exchange began.
C3_RelayResumed == (AtRest /\ hasReadable(Cur)) => ~hist.owed

\* this step calls close() on the transport
CloseCalled == disc.pc \in {"idle", "afterCancel"} /\ disc'.pc \in {"close", "afterClose"}
\* this step is the end of disconnectFromPort, by return or by exception
DiscEnds == disc'.pc = "idle" /\ (disc.pc = "afterClose" \/ (picoPort /\ ~picoPort'))

\* C6: when disconnectFromPort is invoked while a relay holds a Reader Lease,
\* the lease is cancelled before close() is called on the transport, and
\* when the disconnect has completed picoPort and picoReader are undefined
\* and no Reader Lease is still held.
C6_DisconnectMidRelay ==
  [][disc'.relay =>
       /\ CloseCalled => disc'.lease \in hist'.cancelled
       /\ DiscEnds => /\ ~picoPort'
                      /\ picoReader' = 0
                      /\ \A r \in Scans : rd'[r] \in {"none", "released"}]_vars

\* C7: whenever a scan (clearPicoPort) ends, by terminator, completion,
\* cancellation or read error, the lease it acquired has been released and
\* picoReader is undefined.
C7_ScanEndReleases ==
  [][\A s \in Scans :
       (scan[s].pc # "free" /\ scan'[s].pc = "free")
          => (rd'[s] = "none" /\ picoReader' = 0)]_vars

\* an entry point of the engine is called: run, stop, terminal input
\* (sendCommand), save (writeFile), load (loadTempPy)
EntryCalled == ClickSave \/ ClickLoad \/ ClickRun \/ ClickStop \/ \E k \in Inputs : TermInput(k)

\* C8: with no active transport (picoPort undefined or without a writable
\* endpoint) each entry point is a silent no-op: no byte written, no lease
\* acquired, nothing on the terminal, the editor unchanged, no error raised.
C8_NoTransportNoOp ==
  [][(EntryCalled /\ ~hasWritable(Cur)) =>
       /\ UNCHANGED <<wire, term, editor, rd, curLock, wlock, cmd, scan>>
       /\ hist'.uncaught = hist.uncaught
       /\ \A e \in Exchs : exch'[e].pc \notin {"write", "wrote", "scan1", "scan2"}]_vars

\* C9: no entry point of the engine ends with an uncaught exception or a
\* rejected promise when the transport fails.
C9_NothingEscapes == hist.uncaught = {}

\* C10: every operator input typed while the transport is connected and no
\* exchange runs is written to the transport verbatim, exactly once and in
\* the order typed: when no write of an input is pending any more, the inputs
\* written are the inputs typed.
C10_InputsForwarded ==
  (\A c \in Cmds : cmd[c].pc = "free") => hist.sent = [i \in 1..Len(typed) |-> utf8Encode(typed[i])]

\* the text the device sent between the first 'OK' and the first end-of-data
\* byte after it
Between(reply) ==
  LET i == IndexFrom(reply, TargetOK, 1)
      j == IndexFrom(reply, TargetEOT, i + 2)
  IN SubSeq(reply, i + 2, j - 1)

\* C4: for every way the device's reply is cut into chunks the read exchange
\* returns exactly the text sent between the first 'OK' and the first
\* end-of-data byte after it: the second scan returns that text, and no scan
\* still waits once the whole reply has been delivered.
C4_ReadReturnsReply ==
  \A e \in Exchs :
    /\ exch[e].pc = "after2" => exch[e].res = decode(Between(dev.reply))
    /\ (Quiescent(Cur) /\ exch[e].pc \in {"scan1", "scan2"}) => dev.out # <<>>

EndsInNul(text) == text # <<>> /\ text[Len(text)] = 0

RefDec(b) ==
  (IF b >= 100 THEN <<48 + (b \div 100)>> ELSE <<>>)
    \o (IF b >= 10 THEN <<48 + ((b \div 10) % 10)>> ELSE <<>>)
    \o <<48 + (b % 10)>>

RECURSIVE RefList(_)
RefList(content) ==
  IF content = <<>> THEN <<>>
  ELSE RefDec(Head(content)) \o (IF Len(content) > 1 THEN <<44>> ELSE <<>>)
         \o RefList(Tail(content))

\* what a write exchange of content to temp.py is to put on the transport
RefWriteFile(content) ==
  << [s |-> "", n |-> <<1>>],
     [s |-> "with open(\"temp.py\", \"wb\") as f:\\r", n |-> <<>>],
     [s |-> "  f.write(bytes(${chunk}))\\r", n |-> <<91>> \o RefList(content) \o <<93>>],
     [s |-> "", n |-> <<4>>] >>

LastOf(seq, k) == IF Len(seq) < k THEN <<>> ELSE SubSeq(seq, Len(seq) - k + 1, Len(seq))

\* C11: while the transport stays connected, the writes of writeFile reach
\* the transport in the order 0x01, the text opening temp.py for binary
\* write, the f.write line carrying the content as a bracketed decimal array
\* and a carriage return, 0x04, with no write of another command in between;
\* then the writer is released and 0x02 goes out as a sendCommand of its own.
C11_WriteFileWire ==
  [][\A e \in Exchs :
       (exch[e].kind = "writeFile" /\ hasWritable(Cur)) =>
         /\ WriteDoneExch(e) =>
              /\ wire' = Append(wire, RefWriteFile(exch[e].content)[exch[e].w])
              /\ LastOf(wire', exch[e].w) = SubSeq(RefWriteFile(exch[e].content), 1, exch[e].w)
         /\ (exch[e].pc = "wrote" /\ exch[e].w = 4 /\ ExchStep(e)) =>
              /\ LastOf(wire, 4) = RefWriteFile(exch[e].content)
              /\ \E c \in Cmds : /\ cmd[c].pc = "free"
                                 /\ cmd'[c] = [pc |-> "write", data |-> [s |-> "", n |-> <<2>>],
                                               input |-> FALSE]
              /\ picoWriter' = "live"]_vars

\* a non-empty content was written and 0x02 followed it
C11_Witness ==
  /\ hist.saved = <<97>>
  /\ LastOf(wire, 5) = RefWriteFile(<<97>>) \o <<[s |-> "", n |-> <<2>>]>>

\* what a run request for the code text is to write
RefRun(text) == [s |-> "", n |-> <<1>> \o text \o <<4, 2>>]

MuteChunks == {<<97>>}

NextMuteEnv ==
  \/ \E text \in DevTexts : DevEdit(text)
  \/ DevConnect
  \/ DevSave
  \/ DevLoad
  \/ \E s \in Scans, chunk \in MuteChunks : Deliver(s, chunk)

\* what the event loop and the port do on their own: settled promises are
\* resumed, pending open, cancel and write operations complete
NextMuteSys ==
  \/ OpenDone
  \/ \E e \in Exchs : CancelDoneExch(e)
  \/ \E c \in Cmds : WriteDoneCmd(c)
  \/ \E e \in Exchs : WriteDoneExch(e)
  \/ \E s \in Scans : ScanStep(s)
  \/ \E c \in Cmds : CmdStep(c)
  \/ \E e \in Exchs : ExchStep(e)
  \/ ConnStep

NextMute == NextMuteEnv \/ NextMuteSys

SpecMute == Init /\ [][NextMute]_vars /\ WF_vars(NextMuteSys)

\* C13: if the device never emits 'OK' after a read-file request, the
\* OK-wait of loadTempPy does not last forever: it ends with a failure that
\* aborts the exchange.
C13_OkWaitEnds ==
  \A e \in Exchs :
    (exch[e].kind = "loadTempPy" /\ exch[e].pc = "scan1") ~> (exch[e].pc = "free")

\* ------------------------------------------- one scan over scripted chunks
\* "hello>OK world"
ScanText == <<104, 101, 108, 108, 111, 62, 79, 75, 32, 119, 111, 114, 108, 100>>
\* 'O', 'l', 'OK', end-of-data, none
ScanTargets == {<<79>>, <<108>>, TargetOK, TargetEOT, NoTarget}

\* the device will send ScanText, cut into chunks in one of the bounded ways
InitScan ==
  \E cuts \in DevCuts :
    InitWith([NoDev EXCEPT !.cuts = cuts, !.reply = ScanText,
                            !.out = devChunks(ScanText, cuts, 1)])

\* a caller awaits clearPicoPort(targetChar, null) while no reader is held;
\* it is resumed with the scan's result
ScanCall(targetChar) ==
  /\ Quiescent(Cur)
  /\ hasReadable(Cur)
  /\ picoReader = 0
  /\ FreeExchs(Cur) = Exchs
  /\ used.events = 1
  /\ Become(Event(loadScan(
        [Cur EXCEPT !.exch[1] = [NoExch EXCEPT !.kind = "scan", !.content = targetChar]],
        1, targetChar, "scan2", "after2")))

\* the device sends its next chunk to the awaited scan
ScanFeed == exch[1].kind = "scan" /\ DevSend

\* the relay started by the connect handler ends with its stream
RelayStreamEnd(s) == exch[1].kind = "none" /\ StreamEnd(s)

NextScan ==
  \/ DevConnect
  \/ OpenDone
  \/ ConnStep
  \/ \E s \in Scans : RelayStreamEnd(s)
  \/ \E s \in Scans : ScanStep(s)
  \/ \E targetChar \in ScanTargets : ScanCall(targetChar)
  \/ ScanFeed

SpecScan == InitScan /\ [][NextScan]_vars

\* the awaited scan has returned
ScanReturned == exch[1].kind = "scan" /\ exch[1].pc = "after2"

\* C14 as stated: a scan over the chunks "he", "llo>OK world" with terminator
\* 'O' returns "hello".
C14_ScanHello ==
  (ScanReturned /\ dev.cuts = {2} /\ exch[1].content = <<79>>)
     => exch[1].res = <<104, 101, 108, 108, 111>>

\* C14, amended: a scan over the chunks "he", "llo>OK world" with terminator
\* 'O' returns "hello>", everything before the first 'O'; so it does for
\* every other way of cutting that text into chunks.
C14_ScanHelloGt ==
  (ScanReturned /\ exch[1].content = <<79>>)
     => exch[1].res = <<104, 101, 108, 108, 111, 62>>

\* the scan over "he", "llo>OK world" with terminator 'O' has returned
C14_Witness ==
  /\ ScanReturned
  /\ dev.cuts = {2}
  /\ exch[1].content = <<79>>
  /\ dev.out = <<>>
  /\ exch[1].res = <<104, 101, 108, 108, 111, 62>>

\* --------------------------------- binaryStringToUint8Array on its own
MaxHex == 4
\* '0', '6', 'F', 'a'
HexDigits == {48, 54, 70, 97}
\* b'68656c6c6f00', b'68656c6c6f', b'abc'
HexExamples ==
  { <<98, 39, 54, 56, 54, 53, 54, 99, 54, 99, 54, 102, 48, 48, 39>>,
    <<98, 39, 54, 56, 54, 53, 54, 99, 54, 99, 54, 102, 39>>,
    <<98, 39, 97, 98, 99, 39>> }
HexInputs ==
  HexExamples \cup
    {<<98, 39>> \o h \o <<39>> : h \in UNION {[1..n -> HexDigits] : n \in 0..MaxHex}}

\* the text to convert is what the device printed; nothing is converted yet
InitCodec == \E str \in HexInputs : InitWith([NoDev EXCEPT !.reply = str])

\* binaryStringToUint8Array(result): res the argument, content the return value
Convert ==
  /\ exch[1].kind = "none"
  /\ exch' = [exch EXCEPT ![1] = [NoExch EXCEPT !.kind = "codec", !.pc = "after2",
                                                 !.res = dev.reply,
                                                 !.content = binaryStringToUint8Array(dev.reply)]]
  /\ UNCHANGED <<picoPort, picoReader, picoWriter, portState, curSt, curLock, wlock,
                 rd, scan, cmd, conn, disc, wire, typed, term, editor, hist, used, dev, ports,
                 poll>>

NextCodec == Convert

SpecCodec == InitCodec /\ [][NextCodec]_vars

Converted == exch[1].kind = "codec"

\* the reference conversion: the text between b' and ', a '0' appended when
\* its length is odd, each pair of digits one byte, a final 0x00 byte dropped
RefDigit(c) ==
  IF c >= 48 /\ c <= 57 THEN c - 48
  ELSE IF c >= 97 /\ c <= 102 THEN c - 87
  ELSE c - 55
RefHexBytes(str) ==
  LET body == SubSeq(str, 3, Len(str) - 1)
      even == IF Len(body) % 2 = 1 THEN Append(body, 48) ELSE body
      all == [k \in 1..(Len(even) \div 2) |->
                16 * RefDigit(even[2 * k - 1]) + RefDigit(even[2 * k])]
  IN IF Len(all) > 0 /\ all[Len(all)] = 0 THEN SubSeq(all, 1, Len(all) - 1) ELSE all

Parkable(S) ==
  /\ S.portState \in {"closed", "opened"}
  /\ S.curLock = 0 /\ ~S.wlock
  /\ S.conn.pc = "idle" /\ S.disc.pc = "idle"

\* this.picoPort = selectedOption.port for a port p other than the current
\* one: the port left behind keeps its state, p comes with its own
focus(S, p) ==
  IF p = S.ports.cur THEN S
  ELSE [S EXCEPT
          !.ports.cur = p,
          !.ports.left = (@ \cup (IF S.portState = "opened" THEN {S.ports.cur} ELSE {}))
                           \ {p},
          !.portState = IF p \in S.ports.left THEN "opened" ELSE "closed",
          !.curSt = "readable"]

\* the operator selects another option of the port selector: getSelectedPort
\* will take that port.  The selector is enabled and nothing is in flight on
\* the port left behind.
SelectPort(p) ==
  /\ AtRest
  /\ conn.ui = "Connect"
  /\ ~picoPort
  /\ p # ports.sel
  /\ \E i \in 1..Len(ports.opts) : ports.opts[i] = p
  /\ Parkable(Cur)
  /\ Become(focus([Cur EXCEPT !.ports.sel = p], p))

\* connect and disconnect clicks, port selections, open() and close()
\* completions, and the relay a connection starts
NextPorts ==
  \/ ClickConnect
  \/ \E p \in Ports : SelectPort(p)
  \/ OpenDone
  \/ OpenFail
  \/ CloseDone
  \/ CancelDoneDisc
  \/ \E s \in Scans, chunk \in Chunks : Deliver(s, chunk)
  \/ \E s \in Scans : ScanStep(s)
  \/ ConnStep
  \/ DiscStep

SpecPorts == Init /\ [][NextPorts]_vars

\* the transports that are open
OpenPorts ==
  (IF portState \in {"opened", "closing"} THEN {ports.cur} ELSE {}) \cup ports.left

\* C16: at most one transport is open at any time, over every sequence of
\* connect clicks, disconnect clicks, port selections and open()/close()
\* completions, a click on the connect button while an open() is pending
\* included.
C16_AtMostOneOpen == Cardinality(OpenPorts) <= 1

\* openPicoPort runs its catch block: open() was rejected after a while, or at
\* once on a port that is not closed
OpenFailing ==
  \/ ConnStep /\ conn.pc = "failed"
  \/ ClickConnect /\ ~picoPort /\ portState # "closed"

C18_DisconnectEnds ==
  [][DiscEnds =>
       /\ ~picoPort'
       /\ conn'.ui = "Connect"
       /\ Len(term') > 0 /\ term'[Len(term')] = TermLine("<DISCONNECTED>")
       /\ "disconnectFromPort" \notin hist'.uncaught]_vars

\* the chunk the settled read of scan s brought contains the scan's terminator
HasTerminator(s) ==
  /\ scan[s].val.kind = "chunk"
  /\ scan[s].target # NoTarget
  /\ LET chunk == decode(scan[s].val.chunk)
         n == Len(scan[s].target)
     IN \E i \in 1..Len(chunk) :
          i + n - 1 <= Len(chunk) /\ SubSeq(chunk, i, i + n - 1) = scan[s].target

\* C19: a scan ends, other than by a failed read, exactly when its read
\* signals completion (the stream ended or was cancelled) or, with a
\* terminator configured, in the turn that takes the first chunk containing
\* the terminator, and no read is issued after that chunk; on any other chunk
\* it reads on, so with the terminator disabled it ends on completion only.
C19_ScanEnds ==
  [][\A s \in Scans :
       /\ (ScanStep(s) /\ HasTerminator(s)) => scan'[s].pc = "free"
       /\ (ScanStep(s) /\ scan[s].val.kind = "done") => scan'[s].pc = "free"
       /\ (ScanStep(s) /\ scan[s].val.kind = "chunk" /\ ~HasTerminator(s))
            => /\ scan'[s].pc \in {"read", "got"}
               /\ scan'[s].target = scan[s].target
       /\ (scan[s].pc \notin {"free", "catch"} /\ scan'[s].pc = "free")
            => /\ ScanStep(s)
               /\ scan[s].val.kind = "done" \/ HasTerminator(s)]_vars

\* loadTempPy's scan for 'OK' took the chunk "a", read on, took "OK" and ended
C19_Witness ==
  \E e \in Exchs :
    /\ exch[e].kind = "loadTempPy"
    /\ exch[e].pc = "after1"
    /\ exch[e].res = <<97>>
    /\ used = [events |-> 2, chunks |-> 2, faults |-> 0]
    /\ hasReadable(Cur)
    /\ \A s \in Scans : scan[s].pc = "free"

\* a file-transfer or run-code request is issued
RequestIssued == ClickSave \/ ClickLoad \/ ClickRun

\* C20: every file-transfer or run-code request issued while a relay is
\* active cancels the relay's Reader Lease before it writes its first command
\* byte: the lease is cancelled in the turn of the request, in which its
\* first write is issued at the earliest.
C20_RelayCancelledFirst ==
  [][\A s \in Scans :
       (RequestIssued /\ hasWritable(Cur) /\ scan[s].cb /\ scan[s].pc = "read"
          /\ rd[s] = "cur")
         => s \in hist'.cancelled]_vars

\* exchange e has cancelled the relay and has not yet called readPicoPort()
Transferring(e) == exch[e].pc # "free" /\ exch[e].relay

\* C21: from the moment a writeFile or loadTempPy request has cancelled the
\* relay until that request resumes the relay, no chunk received from the
\* device is written to the terminal.
C21_NoForwardInTransfer ==
  [][\A e \in Exchs :
       (Transferring(e) /\ exch'[e].pc # "free")
         => \A i \in 1..Len(term') : (i > Len(term) => term'[i].k # "chunk")]_vars

\* a writeFile that cancelled the relay is writing, and its drain pass has
\* taken a chunk of which the terminal saw nothing
C21_Witness ==
  \E e \in Exchs, s \in Scans :
    /\ Transferring(e)
    /\ exch[e].kind = "writeFile"
    /\ exch[e].pc = "write"
    /\ ~scan[s].cb /\ scan[s].res # <<>>
    /\ \A i \in 1..Len(term) : term[i].k # "chunk"

\* exchange e holds the Writer Lease: it is between getWritablePort() and
\* releaseLock()
Writing(e) == exch[e].pc \in {"write", "wrote"}

\* the scans an exchange starts: its drain pass (not awaited) and the scans
\* it awaits; none has a forwarding callback
ScansOf(e) ==
  {s \in Scans : scan[s].pc # "free" /\ ~scan[s].cb /\ scan[s].owner \in {0, e}}

\* C22: within each writeFile and loadTempPy exchange, while the exchange
\* holds its Writer Lease none of its scans holds a Reader Lease or has a
\* read in progress.
C22_WriteBeforeRead ==
  \A e \in Exchs : Writing(e) => \A s \in ScansOf(e) : rd[s] \notin {"cur", "closed", "errored"}

\* ------------------------------------------ one writeFile during a relay
\* one click on "save" while the relay started by the connect handler waits
\* for the device
SoloSave == used.events = 1 /\ Relaying /\ ClickSave

\* the operator connects and saves once; nothing else is clicked or typed, no
\* stream fails and the port stays connected
NextSolo ==
  \/ \E text \in EditorTexts : DevEdit(text)
  \/ DevConnect
  \/ SoloSave
  \/ OpenDone
  \/ \E e \in Exchs : CancelDoneExch(e)
  \/ \E s \in Scans, chunk \in Chunks : Deliver(s, chunk)
  \/ \E c \in Cmds : WriteDoneCmd(c)
  \/ \E e \in Exchs : WriteDoneExch(e)
  \/ \E s \in Scans : ScanStep(s)
  \/ \E c \in Cmds : CmdStep(c)
  \/ \E e \in Exchs : ExchStep(e)
  \/ ConnStep

SpecSolo == Init /\ [][NextSolo]_vars

\* C23: with a single exchange in flight and no operator input, hardware
\* event or disconnect during it, a writeFile issued while Relaying completes
\* without a getReader() or getWriter() call on a locked stream, and when it
\* ends exactly one Reader Lease is live, that of the resumed relay.
C23_SoloWriteFile ==
  [][/\ ~hist'.lockedGetReader
     /\ hist'.uncaught = {}
     /\ \A e \in Exchs :
          (exch[e].pc # "free" /\ exch'[e].pc = "free")
            => \E s \in Scans : LiveLeases' = {s} /\ scan'[s].cb /\ picoReader' = s]_vars

\* the writeFile has ended and the relay it resumed holds the only lease
C23_Witness ==
  /\ used.events = 2
  /\ hist.saved = <<97>>
  /\ Len(wire) = 5
  /\ FreeExchs(Cur) = Exchs /\ FreeCmds(Cur) = Cmds
  /\ \E s \in Scans : LiveLeases = {s} /\ scan[s].cb /\ scan[s].pc = "read"

\* C24: every Writer Lease acquired by getWritablePort is released again:
\* once every sendCommand, writeFile and loadTempPy has ended, normally, with
\* a rejected write or with the port cleared in between, the writable
\* endpoint is unlocked and no Writer Lease is live.
C24_WriterReleased ==
  (FreeCmds(Cur) = Cmds /\ FreeExchs(Cur) = Exchs) => (~wlock /\ picoWriter # "live")

MaxOpts == 4

\* findPortOption: the first option whose port is the given port object, 0
\* (null) when there is none
findPortOption(opts, port) ==
  IF \E i \in 1..Len(opts) : opts[i] = port
  THEN Least({i \in 1..Len(opts) : opts[i] = port})
  ELSE 0

addNewPort(opts, port) == Append(opts, port)

\* an option is added whether or not the port has one
alwaysAddNewPort(opts, port) == Append(opts, port)

maybeAddNewPort(opts, port) ==
  IF findPortOption(opts, port) # 0 THEN opts ELSE addNewPort(opts, port)

\* portOption.remove() on the option at index i
removeOption(opts, i) == SubSeq(opts, 1, i - 1) \o SubSeq(opts, i + 1, Len(opts))

\* ports.forEach((port) => picoSerial.addNewPort(port)) over getPorts()
RECURSIVE Listed(_)
Listed(set) ==
  IF set = {} THEN <<>> ELSE <<Least(set)>> \o Listed(set \ {Least(set)})

\* startup: the ports plugged in are enumerated; the 'prompt' option or one
\* of theirs is selected
InitHw ==
  \E here \in SUBSET Ports : \E sel \in {0} \cup here :
    InitAt(NoDev, [opts |-> Listed(here), sel |-> sel, here |-> here,
                   cur |-> IF sel = 0 THEN 1 ELSE sel, left |-> {}])

\* the device of the current port is gone: a pending read is rejected and
\* the stream is errored
deviceLost(S) ==
  IF \E s \in Scans : S.scan[s].pc = "read"
  THEN LET s == CHOOSE r \in Scans : S.scan[r].pc = "read"
       IN [S EXCEPT !.scan[s].pc = "got", !.scan[s].val = Settled("err", <<>>),
                    !.rd[s] = "errored", !.curLock = 0]
  ELSE S

\* navigator.serial 'connect' event, fired for a port that becomes available:
\* addNewPort(event.target), selected
HwConnect(p) ==
  /\ Quiescent(Cur)
  /\ p \notin ports.here
  /\ Len(ports.opts) < MaxOpts
  /\ Become([Cur EXCEPT !.ports.here = @ \cup {p},
                        !.ports.opts = addNewPort(@, p),
                        !.ports.sel = p])

\* navigator.serial 'disconnect' event: the option found for event.target is
\* removed; the selector falls back to its first option, 'prompt', when that
\* option was the selected one
HwDisconnect(p) ==
  /\ Quiescent(Cur)
  /\ p \in ports.here
  /\ LET i == findPortOption(ports.opts, p)
         opts == IF i = 0 THEN ports.opts ELSE removeOption(ports.opts, i)
         S == [Cur EXCEPT !.ports.here = @ \ {p},
                          !.ports.opts = opts,
                          !.ports.sel = IF @ = p /\ findPortOption(opts, p) = 0 THEN 0 ELSE @]
     IN Become(IF p = ports.cur /\ portState = "opened" THEN deviceLost(S) ELSE S)

\* click on the connect button with 'prompt' selected: getSelectedPort awaits
\* requestPort(), the operator picks port p, maybeAddNewPort(p), selected
PickPort(p) ==
  /\ UserMay
  /\ ~picoPort
  /\ ports.sel = 0
  /\ p \in ports.here
  /\ p = ports.cur \/ Parkable(Cur)
  /\ Become(Event(openPicoPort(focus(
        [Cur EXCEPT !.ports.opts = maybeAddNewPort(@, p), !.ports.sel = p], p))))

\* the operator dismisses the prompt: requestPort() rejects, getSelectedPort
\* returns, picoPort stays undefined and openPicoPort returns
\* the handler goes on as if a port had been chosen
promptDismissedOpens(S) == openPicoPort(S)

\* the click handler once requestPort() has rejected: getSelectedPort returns
\* in its catch block, openPicoPort returns at "if (!this.picoPort)", and the
\* handler awaits readPicoPort()
promptDismissed(S) == readPicoPort(S)

PromptDismiss ==
  /\ UserMay
  /\ ~picoPort
  /\ ports.sel = 0
  /\ Become(Event(promptDismissed(Cur)))

\* click on the connect button with a port's option selected
ListClick ==
  /\ UserMay
  /\ IF picoPort THEN Become(Event(disconnectFromPort(Cur)))
     ELSE /\ ports.sel # 0
          /\ ports.sel = ports.cur \/ Parkable(Cur)
          /\ Become(Event(openPicoPort(focus(Cur, ports.sel))))

NextHwEnv ==
  \/ \E p \in Ports : HwConnect(p)
  \/ \E p \in Ports : HwDisconnect(p)
  \/ \E p \in Ports : PickPort(p)
  \/ PromptDismiss
  \/ ListClick

\* open() succeeds on a port that is plugged in and fails on one that is gone
HwOpenDone == ports.cur \in ports.here /\ OpenDone
HwOpenFail == ports.cur \notin ports.here /\ OpenFail

NextHwSys ==
  \/ HwOpenDone
  \/ HwOpenFail
  \/ CloseDone
  \/ CancelDoneDisc
  \/ \E s \in Scans : TermFlush(s)
  \/ \E s \in Scans : ScanStep(s)
  \/ ConnStep
  \/ DiscStep

NextHw == NextHwEnv \/ NextHwSys

SpecHw == InitHw /\ [][NextHw]_vars /\ WF_vars(NextHwSys)

\* C26: a hardware disconnect event for the port that is the active
\* transport tears the connection down: once that port is gone while
\* picoPort is set, the controller reaches Disconnected, picoPort undefined.
C26_HwDisconnectTearsDown ==
  (picoPort /\ portState = "opened" /\ ports.cur \notin ports.here) ~> ~picoPort

\* C27: after a successful open the controller is Connected and the session
\* is Relaying: the handler's readPicoPort() acquires a Reader Lease with no
\* terminator, and from then on each chunk the relay reads is decoded and
\* written to the terminal once, in arrival order.
C27_OpenStartsRelay ==
  [][/\ (ConnStep /\ conn.pc = "opened")
          => /\ picoPort' /\ conn'.ui = "Disconnect"
             /\ \E s \in Scans :
                  /\ scan[s].pc = "free" /\ scan'[s].pc = "read"
                  /\ scan'[s].cb /\ scan'[s].target = NoTarget
                  /\ rd'[s] = "cur" /\ picoReader' = s
     /\ \A s \in Scans :
          (ScanStep(s) /\ scan[s].cb /\ scan[s].val.kind = "chunk")
            => term' = Append(term, TermChunk(decode(scan[s].val.chunk)))]_vars

\* a sendCommand that carries the interrupt byte alone
StopCmd(c) == cmd[c].pc # "free" /\ cmd[c].data = Bytes(<<CtrlC>>) /\ ~cmd[c].input

\* C28: a click on "stop" while Relaying or Idle (no exchange in flight) on a
\* connected transport acquires the Writer Lease and issues the write of the
\* single byte 0x03; the byte reaches the wire alone, the lease is released
\* after it, and none of these steps changes the exchanges, the scans, the
\* Reader Lease or picoPort.
C28_StopIsFrameNeutral ==
  [][/\ (ClickStop /\ hasWritable(Cur) /\ FreeExchs(Cur) = Exchs)
          => /\ \E c \in Cmds :
                  /\ cmd[c].pc = "free"
                  /\ cmd'[c] = [pc |-> "write", data |-> Bytes(<<CtrlC>>), input |-> FALSE]
             /\ wlock' /\ picoWriter' = "live"
             /\ hist'.uncaught = hist.uncaught
             /\ UNCHANGED <<picoPort, picoReader, rd, scan, curLock, exch, wire>>
     /\ \A c \in Cmds :
          /\ (StopCmd(c) /\ WriteDoneCmd(c))
               => /\ wire' = Append(wire, Bytes(<<CtrlC>>))
                  /\ UNCHANGED <<picoPort, picoReader, rd, scan, curLock, exch>>
          /\ (StopCmd(c) /\ CmdStep(c))
               => /\ ~wlock' /\ picoWriter' # "live"
                  /\ UNCHANGED <<picoPort, picoReader, rd, scan, curLock, exch, wire>>]_vars

\* positions at which terminator T occurs in a chunk
RefAt(chunk, T) ==
  {i \in 1..Len(chunk) : i + Len(T) - 1 <= Len(chunk) /\ SubSeq(chunk, i, i + Len(T) - 1) = T}

\* the first k chunks, concatenated
RECURSIVE RefJoin(_, _)
RefJoin(chunks, k) == IF k = 0 THEN <<>> ELSE RefJoin(chunks, k - 1) \o chunks[k]

\* the chunks the device sends in this session
ScanChunks == devChunks(dev.reply, dev.cuts, 1)

\* the chunks that contain terminator T
RefHits(T) == {k \in 1..Len(ScanChunks) : RefAt(ScanChunks[k], T) # {}}

\* C29: the value a scan with terminator T returns is the concatenation of
\* the chunks received before the first chunk containing T, followed by the
\* part of that chunk before its first occurrence of T.
C29_ScanValue ==
  ScanReturned =>
    LET T == exch[1].content IN
      /\ RefHits(T) # {}
      /\ LET k == Least(RefHits(T))
             i == Least(RefAt(ScanChunks[k], T))
         IN exch[1].res = RefJoin(ScanChunks, k - 1) \o SubSeq(ScanChunks[k], 1, i - 1)

\* the scan for 'l' over "he", "llo>OK world" has returned "he": the chunk
\* with the terminator holds it three times
C29_Witness ==
  /\ ScanReturned
  /\ exch[1].content = <<108>>
  /\ dev.cuts = {2}
  /\ exch[1].res = <<104, 101>>

\* number of options of the selector that hold port p
OptionsOf(opts, p) == Cardinality({i \in 1..Len(opts) : opts[i] = p})

\* at most one option per port, and findPortOption finds it by the port
OneOptionPerPort ==
  \A p \in Ports :
    /\ OptionsOf(ports.opts, p) <= 1
    /\ LET i == findPortOption(ports.opts, p)
       IN IF i = 0 THEN OptionsOf(ports.opts, p) = 0 ELSE ports.opts[i] = p

\* an option that leaves the selector does so in the hardware disconnect
\* event of its port
RemovedByDisconnect ==
  \A p \in Ports :
    OptionsOf(ports'.opts, p) < OptionsOf(ports.opts, p) => HwDisconnect(p)

\* C30: after any sequence of startup enumeration, requestPort selections
\* and hardware connect and disconnect events the selector holds at most one
\* option per port, found by findPortOption through the port itself, and an
\* option is removed only by the hardware disconnect event of its port.
C30_PortEntries == []OneOptionPerPort /\ [][RemovedByDisconnect]_vars

\* port 1 was plugged in after port 2 was listed, its option was appended,
\* and the operator connected to it
C30_Witness ==
  /\ ports.opts = <<2, 1>>
  /\ ports.here = Ports
  /\ ports.cur = 1
  /\ picoPort
  /\ portState = "opened"

\* C31: when the operator cancels the port-selection prompt of a connect, the
\* operation aborts silently: open() is not called (the port's state is
\* unchanged), nothing is written to the terminal, no lease is acquired, and
\* the controller stays Disconnected, picoPort undefined, the selector and
\* the button unchanged; nothing else changes either and nothing is thrown.
C31_PromptCancelSilent ==
  [][PromptDismiss =>
       /\ ~picoPort'
       /\ UNCHANGED <<picoPort, picoReader, picoWriter, portState, curSt, curLock, wlock,
                      rd, scan, cmd, exch, conn, disc, wire, typed, term, editor, hist,
                      dev, ports>>]_vars

\* nothing is plugged in, the operator clicked the connect button and
\* dismissed the prompt: the controller is as it was after startup
C31_Witness ==
  /\ used.events = 1
  /\ ports = [opts |-> <<>>, sel |-> 0, here |-> {}, cur |-> 1, left |-> {}]
  /\ ~picoPort
  /\ portState = "closed"
  /\ conn = [pc |-> "idle", ui |-> "Connect"]
  /\ term = <<>>
  /\ LiveLeases = {}

\* ------------------------------------ buffer-polling engine: Pico.waitForOK
TimeoutMs == 3000
PollMs == 100
MaxPut == 2
ChGt == 62
\* '>OK'
TargetGtOK == <<ChGt, ChO, ChK>>
\* what the relay loop may hand to putBuffer: ">O", "Ka", ">OK"
PollChunks == {<<ChGt, ChO>>, <<ChK, 97>>, TargetGtOK}
\* setTimeout(resolve, 100) fires after the delay or later
TimerDelays == {PollMs, PollMs + 50, TimeoutMs}

\* receivedData.split(targetString)[1]: the text between the first and the
\* second occurrence of the target, the rest when there is no second one
splitSecond(text, target) ==
  LET rest == SubSeq(text, IndexFrom(text, target, 1) + Len(target), Len(text))
  IN beforeTarget(rest, target)

\* getReceivedBuff(): the buffer is returned and cleared
getReceivedBuff(P) == [P EXCEPT !.buff = <<>>]

\* one turn of the loop of waitForOK, from its condition to the next sleep
waitForOKLoop(P) ==
  IF P.mode THEN [P EXCEPT !.pc = "returned"]
  ELSE LET receivedData == P.received \o P.buff
           Q == [getReceivedBuff(P) EXCEPT !.received = receivedData, !.polls = @ + 1]
       IN IF includes(receivedData, TargetGtOK)
          THEN [Q EXCEPT !.buff = splitSecond(receivedData, TargetGtOK), !.mode = TRUE,
                         !.pc = "returned"]
          ELSE IF Q.now - Q.start > TimeoutMs
          THEN [Q EXCEPT !.pc = "thrown"]
          ELSE [Q EXCEPT !.pc = "sleep"]

\* waitForOK from its first statement
waitForOK(P) == waitForOKLoop([P EXCEPT !.start = P.now, !.received = <<>>, !.all = P.buff])

\* putBuffer(value): the decoded chunk is appended to picoRecivedBuff
putBuffer(P, value) == [P EXCEPT !.buff = @ \o decode(value), !.all = @ \o decode(value)]

PollFrame ==
  UNCHANGED <<picoPort, picoReader, picoWriter, portState, curSt, curLock, wlock, rd,
              scan, cmd, exch, conn, disc, wire, typed, term, editor, hist, dev, ports>>

\* the relay loop received a chunk
PutBuffer(value) ==
  /\ poll.pc \in {"idle", "sleep"}
  /\ used.chunks < MaxPut
  /\ poll' = putBuffer(poll, value)
  /\ used' = [used EXCEPT !.chunks = @ + 1]
  /\ PollFrame

\* loadMainPy calls waitForOK after its writes
WaitCall ==
  /\ poll.pc = "idle"
  /\ poll' = waitForOK(poll)
  /\ UNCHANGED used
  /\ PollFrame

\* the timer of the sleeping waitForOK fires, delay ms after it was set
TimerFire(delay) ==
  /\ poll.pc = "sleep"
  /\ poll' = waitForOKLoop([poll EXCEPT !.now = @ + delay])
  /\ UNCHANGED used
  /\ PollFrame

NextPollEnv ==
  \/ \E value \in PollChunks : PutBuffer(value)
  \/ WaitCall

NextPollSys == \E delay \in TimerDelays : TimerFire(delay)

NextPoll == NextPollEnv \/ NextPollSys

SpecPoll == Init /\ [][NextPoll]_vars /\ WF_vars(NextPollSys)

\* the text after the first occurrence of T
RefAfter(text, T) == SubSeq(text, Least(RefAt(text, T)) + Len(T), Len(text))

\* a poll of waitForOK: its outcome is as the claim says
PollAsClaimed ==
  (poll'.polls = poll.polls + 1) =>
    IF RefAt(poll'.all, TargetGtOK) # {}
    THEN /\ poll'.pc = "returned"
         /\ poll'.mode
         /\ poll'.buff = RefAfter(poll'.all, TargetGtOK)
    ELSE IF poll'.now - poll'.start > TimeoutMs
    THEN poll'.pc = "thrown"
    ELSE poll'.pc = "sleep" /\ poll'.polls <= TimeoutMs \div PollMs + 1

\* C32: waitForOK of the buffer-polling engine always terminates: when the
\* receive buffer never holds '>OK' it throws the timeout error at the first
\* poll at which more than 3000 ms have elapsed, after a bounded number of
\* polls, and when '>OK' has arrived by a poll it returns with
\* isDataTransferMode set and the text after '>OK' kept in the receive buffer.
C32_WaitForOK ==
  /\ [][PollAsClaimed]_vars
  /\ (poll.pc = "sleep") ~> (poll.pc \in {"returned", "thrown"})

\* C33: the cleanup block of a scan releases and clears only the Reader Lease
\* that this scan acquired: when a later scan has stored its own lease in the
\* shared picoReader field, the end of the earlier scan neither releases that
\* newer lease nor clears the reference to it.
C33_CleanupOwnLease ==
  [][\A s \in Scans :
       (scan[s].pc # "free" /\ scan'[s].pc = "free" /\ picoReader \notin {0, s})
          => /\ picoReader' = picoReader
             /\ rd'[picoReader] = rd[picoReader]]_vars

\* C34: whenever the controller has settled in Disconnected (picoPort is
\* undefined and no openPicoPort or disconnectFromPort call is still in
\* flight), the transport it last used is closed, also when the connect button
\* was clicked again while open() was still pending.
C34_SettledMeansClosed ==
  (~picoPort /\ conn.pc = "idle" /\ disc.pc = "idle") => portState = "closed"

\* C35: while the controller is Connected and no exchange is in flight a
\* relay read is active: once everything that was set off has run to its end
\* (also the report of a read error, also a stream that signalled completion
\* while the transport stays open), a relay holds a lease and waits for the
\* device.
C35_RelayWhileConnected == (AtRest /\ hasReadable(Cur)) => Relaying

\* ------------------------------------------- scans whose read is rejected
\* a read error whose reason is not an Error object (a stream errored with a
\* string, as a polyfilled port does): the pending read rejects with it
ReadErrorValue(s) ==
  /\ FaultMay
  /\ scan[s].pc = "read"
  /\ Become(Fault([Cur EXCEPT !.scan[s].pc = "got", !.scan[s].val = Settled("errval", <<>>),
                              !.rd[s] = "errored", !.curLock = 0]))

\* one click on "load" while the controller is connected and at rest
ThrowLoad == AtRest /\ used.events = 1 /\ ClickLoad

\* the operator connects and loads once, the device sends chunks, a read fails
NextThrowEnv ==
  \/ DevConnect
  \/ ThrowLoad
  \/ \E s \in Scans, chunk \in Chunks : Deliver(s, chunk)
  \/ \E s \in Scans : ReadError(s)
  \/ \E s \in Scans : ReadErrorValue(s)

\* what the event loop, the port and the terminal do on their own
NextThrowSys ==
  \/ OpenDone
  \/ \E e \in Exchs : CancelDoneExch(e)
  \/ \E c \in Cmds : WriteDoneCmd(c)
  \/ \E e \in Exchs : WriteDoneExch(e)
  \/ \E s \in Scans : TermFlush(s)
  \/ \E s \in Scans : ScanStep(s)
  \/ \E c \in Cmds : CmdStep(c)
  \/ \E e \in Exchs : ExchStep(e)
  \/ ConnStep

NextThrow == NextThrowEnv \/ NextThrowSys

SpecThrow == Init /\ [][NextThrow]_vars /\ WF_vars(NextThrowSys)

\* the read of scan s has been rejected
ReadFailed(s) == scan[s].pc = "got" /\ scan[s].val.kind \in {"err", "errval"}

\* C36: after a read on the Reader Lease has failed, clearPicoPort always
\* terminates, whatever kind of value the stream threw: its cleanup runs, the
\* lease is released, and it returns to its caller the text accumulated
\* before the failure.
C36_FailedScanEnds ==
  /\ \A s \in Scans : ReadFailed(s) ~> (scan[s].pc = "free" /\ rd[s] = "none")
  /\ [][\A s \in Scans, e \in Exchs :
          (scan[s].pc \in {"catch", "hang"} /\ scan'[s].pc = "free" /\ scan[s].owner = e)
             => exch'[e].res = scan[s].res]_vars

\* disconnectFromPort is starting or in flight
TearingDown == (picoPort /\ ClickConnect) \/ disc.pc # "idle"

\* C37: from the moment disconnectFromPort starts no new Writer Lease is
\* acquired on the transport being closed: picoPort is cleared before the
\* first suspension point, so a sendCommand, run-code, writeFile or loadTempPy
\* issued during the teardown finds no writable port, starts no write and
\* puts nothing on the wire, and no request in flight takes the writer.
C37_NoWriterInTeardown ==
  [][TearingDown =>
       /\ ~picoPort'
       /\ wlock' => wlock
       /\ picoWriter' = "live" => picoWriter = "live"
       /\ \A c \in Cmds : cmd[c].pc = "free" => cmd'[c].pc = "free"
       /\ \A e \in Exchs : exch[e].pc = "free" => exch'[e].pc \notin {"write", "wrote"}
       /\ EntryCalled => wire' = wire]_vars

\* the operator connected, clicked Disconnect and issued a request while
\* close() was still pending: nothing was written
C37_Witness ==
  /\ used.events = 3
  /\ disc.pc = "close"
  /\ portState = "closing"
  /\ term = <<TermLine("<CONNECTED>")>>
  /\ wire = <<>>
  /\ ~wlock
  /\ FreeCmds(Cur) = Cmds /\ FreeExchs(Cur) = Exchs

\* the loadTempPy exchange e ends in this step, by return or by exception
LoadEnds(e) == exch[e].kind = "loadTempPy" /\ exch[e].pc # "free" /\ exch'[e].pc = "free"

\* exchange e met a writable transport at its getWritablePort()
MetWritable(e) == exch[e].w > 0 \/ (exch[e].pc = "body" /\ hasWritable(Cur))

\* C38: loadTempPy leaves the editor content unchanged only when there is no
\* writable transport; with a writable transport each request sets the editor
\* content exactly once, by the time it ends, and when its scans captured
\* nothing (read error, cancelled or ended stream) the content it sets is the
\* empty text.
C38_LoadSetsEditorOnce ==
  [][/\ \A e \in Exchs :
          LoadEnds(e) =>
            IF MetWritable(e)
            THEN /\ hist'.setValue = hist.setValue + 1
                 /\ exch[e].res = <<>> => editor' = <<>>
            ELSE editor' = editor /\ hist'.setValue = hist.setValue
     /\ (ClickLoad /\ FreeExchs(Cur)' = FreeExchs(Cur))
          => IF hasWritable(Cur)
             THEN hist'.setValue = hist.setValue + 1
             ELSE editor' = editor /\ hist'.setValue = hist.setValue]_vars

====
